---- MODULE Spec2Model ----
(***************************************************************************)
(* State-machine model of the KRP WhatsApp server (server.js): the         *)
(* process-wide connection state, the Session Client event handlers, the   *)
(* inbound-message relay and the HTTP route handlers.  Every await of the  *)
(* JavaScript source is a point where a handler is suspended; the code     *)
(* that runs between two awaits is one atomic action.                      *)
(***************************************************************************)
EXTENDS Integers, Sequences, FiniteSets, Bags, TLC

VARIABLES
    isReady,      \* let isReady
    qrCodeData,   \* let qrCodeData: <<>> is '', otherwise a data URL
    encoding,     \* pairing codes whose qrcode.toDataURL(qr) is pending
    msg,          \* the bag of suspended inbound-message handlers
    sendReq,      \* the POST /send handler in flight, or its response
    bulkReq,      \* the POST /send-bulk handler in flight, or its response
    logoutReq,    \* the POST /logout handler in flight, or its response
    last,         \* the handler step taken last and the response it wrote
    qrWatch,      \* the first two pairing codes of the run, as long as they count
    norm,         \* input and outputs of the phone normalization on its own
    proc          \* the process: exit code, signal handlers awaiting destroy

vars == <<isReady, qrCodeData, encoding, msg, sendReq, bulkReq, logoutReq, last,
          qrWatch, norm, proc>>

----------------------------------------------------------------------------
(* Bounds of the model *)

MaxInFlight == 2     \* handlers suspended at an await at once
MaxMsgs == 2         \* inbound-message handlers in flight at once
MaxQr == 2           \* distinct pairing codes the Session Client issues
MaxRecipients == 2   \* longest recipients list of a /send-bulk body
MaxChunks == 4       \* pieces a phone input of the normalization is built from
MaxSignals == 2      \* termination signals delivered to the process

----------------------------------------------------------------------------
(* JSON values of a request body, as far as the handlers look at them *)

Undefined == [t |-> "undefined", s |-> <<>>]
Str(s) == [t |-> "string", s |-> s]
NonZeroNumber == [t |-> "number", s |-> <<>>]
NotAnArray == [t |-> "object", s |-> <<>>]

\* JavaScript truthiness: undefined and '' are falsy
Truthy(v) == CASE v.t = "undefined" -> FALSE
               [] v.t = "string" -> v.s # <<>>
               [] OTHER -> TRUE

IsString(v) == v.t = "string"

Digits == {"0", "1", "2", "3", "4", "5", "6", "7", "8", "9"}

\* phone.replace(/[^0-9]/g, '')
StripNonDigits(s) == SelectSeq(s, LAMBDA c : c \in Digits)

\* phoneNumber.startsWith('91')
StartsWith91(d) == Len(d) >= 2 /\ d[1] = "9" /\ d[2] = "1"

\* a normalization that prefixes every 10-digit number
NormalizeSendAlways(phone) ==
    LET d == StripNonDigits(phone)
    IN  IF Len(d) = 10 THEN <<"9", "1">> \o d ELSE d

\* /send: let phoneNumber = ...; if (!startsWith('91') && length === 10) ...
NormalizeSend(phone) ==
    LET d == StripNonDigits(phone)
    IN  IF ~StartsWith91(d) /\ Len(d) = 10 THEN <<"9", "1">> \o d ELSE d

\* /send-bulk: the same two statements inside the loop
NormalizeBulk(phone) ==
    LET d == StripNonDigits(phone)
    IN  IF ~StartsWith91(d) /\ Len(d) = 10 THEN <<"9", "1">> \o d ELSE d

\* const chatId = phoneNumber + '@c.us'
ChatId(phoneNumber) == Append(phoneNumber, "@c.us")

----------------------------------------------------------------------------
(* Values the environment supplies *)

QrCodes == 1 .. MaxQr

\* qrcode.toDataURL(qr): the image that encodes pairing code qr
ToDataURL(qr) == <<"data:image/png;base64", qr>>

\* message.from of an inbound message
Senders == {<<"919876543210", "@c.us">>, <<"911234567890", "@c.us">>}

\* String.prototype.replace with a string pattern: the first occurrence only
RECURSIVE ReplaceFirst(_, _)
ReplaceFirst(s, tok) ==
    IF s = <<>> THEN <<>>
    ELSE IF Head(s) = tok THEN Tail(s)
    ELSE <<Head(s)>> \o ReplaceFirst(Tail(s), tok)

\* what response.json() can give: a parse error, or one of these values
RelayResults == {"null", "noReply", "emptyReply", "reply"}

\* if (result.reply): a non-empty reply string is the only truthy one here
HasReply(result) == result = "reply"

\* reading result.reply of null throws a TypeError
ReadThrows(result) == result = "null"

Step(op) == [op |-> op]

----------------------------------------------------------------------------
(* Initial state: the module-level lets, no handler running *)

IdleSend == [pc |-> "idle", phone |-> Undefined, chatId |-> <<>>, cmds |-> 0]

IdleBulk == [pc |-> "idle", recipients |-> <<>>, message |-> Undefined, idx |-> 0,
             results |-> <<>>, chatId |-> <<>>, cmds |-> 0, pause |-> 0, gap |-> 0]

IdleLogout == [pc |-> "idle", cmds |-> 0]

\* the process as started: not exited, no signal handler running
NotExited == -1
Running == [exitCode |-> NotExited, pending |-> 0, destroys |-> 0, completed |-> 0,
            policy |-> "none"]

WatchStart == [on |-> TRUE, issued |-> 0, latest |-> 0]
WatchOff == [on |-> FALSE, issued |-> 0, latest |-> 0]

NormIdle == [phone |-> <<>>, send |-> <<>>, bulk |-> <<>>, sendDone |-> FALSE,
             bulkDone |-> FALSE]

Init ==
    /\ isReady = FALSE
    /\ qrCodeData = <<>>
    /\ encoding = {}
    /\ msg = EmptyBag
    /\ sendReq = IdleSend
    /\ bulkReq = IdleBulk
    /\ logoutReq = IdleLogout
    /\ last = Step("init")
    /\ qrWatch = WatchStart
    /\ norm = NormIdle
    /\ proc = Running

----------------------------------------------------------------------------
(* Session Client events: client.on(...) in initializeWhatsApp *)

Requests == <<sendReq, bulkReq, logoutReq>>

\* the number of handlers suspended at an await
InFlight ==
    Cardinality(encoding) + BagCardinality(msg)
    + (IF sendReq.pc # "idle" THEN 1 ELSE 0) + (IF bulkReq.pc # "idle" THEN 1 ELSE 0)
    + (IF logoutReq.pc # "idle" THEN 1 ELSE 0)

\* the environment starts another handler only below the bound
MayStart == InFlight < MaxInFlight

\* qrWatch follows the pairing codes from the start of the run: how many were
\* issued and which one last. It stops counting for good (WatchOff) at a
\* third code, at an encoding that fails and at whatever empties qrCodeData.
WatchIssued(qr) ==
    IF qrWatch.on /\ qrWatch.issued < 2
    THEN [on |-> TRUE, issued |-> qrWatch.issued + 1, latest |-> qr]
    ELSE WatchOff

\* client.on('qr'): the handler runs up to await qrcode.toDataURL(qr)
QrEvent(qr) ==
    /\ MayStart
    /\ qr \notin encoding
    /\ encoding' = encoding \cup {qr}
    /\ qrWatch' = WatchIssued(qr)
    /\ last' = Step("qr")
    /\ UNCHANGED <<isReady, qrCodeData, msg, Requests, norm, proc>>

\* the encoding completes: qrCodeData = await qrcode.toDataURL(qr)
QrEncoded(qr) ==
    /\ qr \in encoding
    /\ encoding' = encoding \ {qr}
    /\ qrCodeData' = ToDataURL(qr)
    /\ last' = Step("qrEncoded")
    /\ UNCHANGED <<isReady, msg, Requests, qrWatch, norm, proc>>

\* the encoding fails: catch (err) logs it
QrEncodeFailed(qr) ==
    /\ qr \in encoding
    /\ encoding' = encoding \ {qr}
    /\ qrWatch' = WatchOff
    /\ last' = Step("qrEncodeFailed")
    /\ UNCHANGED <<isReady, qrCodeData, msg, Requests, norm, proc>>

\* a ready handler that forgets the pairing image
OnReadyKeepsQr ==
    /\ isReady' = TRUE
    /\ last' = Step("ready")
    /\ UNCHANGED <<qrCodeData, encoding, msg, Requests, qrWatch, norm, proc>>

\* client.on('ready')
OnReady ==
    /\ isReady' = TRUE
    /\ qrCodeData' = <<>>
    /\ qrWatch' = WatchOff
    /\ last' = Step("ready")
    /\ UNCHANGED <<encoding, msg, Requests, norm, proc>>

\* client.on('authenticated'): logs only
OnAuthenticated ==
    /\ last' = Step("authenticated")
    /\ UNCHANGED <<isReady, qrCodeData, encoding, msg, Requests, qrWatch, norm, proc>>

\* an auth_failure handler that drops the pairing image as disconnected does
OnAuthFailureClears ==
    /\ isReady' = FALSE
    /\ qrCodeData' = <<>>
    /\ qrWatch' = WatchOff
    /\ last' = Step("auth_failure")
    /\ UNCHANGED <<encoding, msg, Requests, norm, proc>>

\* client.on('auth_failure')
OnAuthFailure ==
    /\ isReady' = FALSE
    /\ last' = Step("auth_failure")
    /\ UNCHANGED <<qrCodeData, encoding, msg, Requests, qrWatch, norm, proc>>

\* client.on('disconnected')
OnDisconnected ==
    /\ isReady' = FALSE
    /\ qrCodeData' = <<>>
    /\ qrWatch' = WatchOff
    /\ last' = Step("disconnected")
    /\ UNCHANGED <<encoding, msg, Requests, norm, proc>>

----------------------------------------------------------------------------
(* Inbound messages: client.on('message') and handleIncomingMessage *)

\* message.from.replace('@c.us', '')
StripSuffix(from) == ReplaceFirst(from, "@c.us")

\* a reply addressed to the bare phone number instead of the chat
ReplyTargetStripped(m) == m.relayFrom

\* message.reply(...) answers in the chat the inbound message came from
ReplyTarget(m) == m.from

\* what a finished message handler leaves behind
MsgDone(m, relay, threw) ==
    [op |-> "message:done", from |-> m.from, relayFrom |-> m.relayFrom,
     posts |-> m.posts, replies |-> m.replies, relay |-> relay, threw |-> threw]

\* a handler without the try/catch: the error reaches the caller
Rethrow(m, relay) == MsgDone(m, relay, TRUE)

\* catch (error) { console.error(...) }: the error is logged and dropped
Swallow(m, relay) == MsgDone(m, relay, FALSE)

\* handler m goes on to its next await as m2, or returns
Goes(m, m2) == (msg (-) SetToBag({m})) (+) SetToBag({m2})
Returns(m) == msg (-) SetToBag({m})

\* the message event: the handler runs up to await fetch(GOOGLE_SCRIPT_URL, ...)
MessageEvent(from) ==
    /\ MayStart
    /\ BagCardinality(msg) < MaxMsgs
    /\ msg' = msg (+) SetToBag({[pc |-> "fetch", from |-> from,
                                 relayFrom |-> StripSuffix(from), posts |-> 1,
                                 relay |-> "pending", replies |-> <<>>]})
    /\ last' = Step("message")
    /\ UNCHANGED <<isReady, qrCodeData, encoding, Requests, qrWatch, norm, proc>>

\* fetch resolves with a response: the handler runs up to await response.json()
FetchResolved(m) ==
    /\ m.pc = "fetch"
    /\ msg' = Goes(m, [m EXCEPT !.pc = "json"])
    /\ last' = Step("message")
    /\ UNCHANGED <<isReady, qrCodeData, encoding, Requests, qrWatch, norm, proc>>

\* fetch rejects (network error, timeout)
FetchRejected(m) ==
    /\ m.pc = "fetch"
    /\ msg' = Returns(m)
    /\ last' = Swallow(m, "networkError")
    /\ UNCHANGED <<isReady, qrCodeData, encoding, Requests, qrWatch, norm, proc>>

\* response.json() rejects: the body is not JSON
JsonRejected(m) ==
    /\ m.pc = "json"
    /\ msg' = Returns(m)
    /\ last' = Swallow(m, "badJson")
    /\ UNCHANGED <<isReady, qrCodeData, encoding, Requests, qrWatch, norm, proc>>

\* response.json() resolves: if (result.reply) await message.reply(...)
JsonResolved(m, result) ==
    /\ m.pc = "json"
    /\ IF ReadThrows(result)
       THEN /\ msg' = Returns(m)
            /\ last' = Swallow(m, result)
       ELSE IF HasReply(result)
       THEN /\ msg' = Goes(m, [m EXCEPT !.pc = "reply", !.relay = result,
                                        !.replies = Append(@, ReplyTarget(m))])
            /\ last' = Step("message")
       ELSE /\ msg' = Returns(m)
            /\ last' = MsgDone(m, result, FALSE)
    /\ UNCHANGED <<isReady, qrCodeData, encoding, Requests, qrWatch, norm, proc>>

\* message.reply resolves: the handler returns
ReplyResolved(m) ==
    /\ m.pc = "reply"
    /\ msg' = Returns(m)
    /\ last' = MsgDone(m, "replied", FALSE)
    /\ UNCHANGED <<isReady, qrCodeData, encoding, Requests, qrWatch, norm, proc>>

\* message.reply rejects
ReplyRejected(m) ==
    /\ m.pc = "reply"
    /\ msg' = Returns(m)
    /\ last' = Swallow(m, "replyFailed")
    /\ UNCHANGED <<isReady, qrCodeData, encoding, Requests, qrWatch, norm, proc>>

----------------------------------------------------------------------------
(* HTTP routes that answer without awaiting anything *)

Frame == <<isReady, qrCodeData, encoding, msg, Requests, qrWatch, norm, proc>>

Null == <<"null">>

\* app.get('/health')
Health ==
    /\ last' = [op |-> "GET /health", status |-> 200, whatsapp |-> isReady]
    /\ UNCHANGED Frame

\* a /status that takes an image to be on offer whenever the session is down
StatusGuessesQr ==
    /\ last' = [op |-> "GET /status", status |-> 200, connected |-> isReady,
                qrAvailable |-> ~isReady]
    /\ UNCHANGED Frame

\* app.get('/status')
Status ==
    /\ last' = [op |-> "GET /status", status |-> 200, connected |-> isReady,
                qrAvailable |-> (qrCodeData # <<>>)]
    /\ UNCHANGED Frame

\* a /qr that hands out the stored image without looking at isReady first
QrStoredFirst ==
    /\ last' = IF qrCodeData # <<>>
               THEN [op |-> "GET /qr", status |-> 200, connected |-> isReady,
                     qrCode |-> qrCodeData]
               ELSE [op |-> "GET /qr", status |-> 200, connected |-> isReady,
                     qrCode |-> Null]
    /\ UNCHANGED Frame

\* app.get('/qr')
Qr ==
    /\ last' = IF isReady
               THEN [op |-> "GET /qr", status |-> 200, connected |-> TRUE, qrCode |-> Null]
               ELSE IF qrCodeData # <<>>
               THEN [op |-> "GET /qr", status |-> 200, connected |-> FALSE,
                     qrCode |-> qrCodeData]
               ELSE [op |-> "GET /qr", status |-> 200, connected |-> FALSE, qrCode |-> Null]
    /\ UNCHANGED Frame

\* app.get('/connect')
Connect ==
    /\ last' = IF isReady
               THEN [op |-> "GET /connect", status |-> 200, page |-> "connected",
                     img |-> Null]
               ELSE IF qrCodeData # <<>>
               THEN [op |-> "GET /connect", status |-> 200, page |-> "scan",
                     img |-> qrCodeData]
               ELSE [op |-> "GET /connect", status |-> 200, page |-> "generating",
                     img |-> Null]
    /\ UNCHANGED Frame

\* app.get('/info'): infoOk is whether client.info can be read
Info(infoOk) ==
    /\ last' = IF ~isReady THEN [op |-> "GET /info", status |-> 400]
               ELSE IF infoOk THEN [op |-> "GET /info", status |-> 200]
               ELSE [op |-> "GET /info", status |-> 500]
    /\ UNCHANGED Frame

----------------------------------------------------------------------------
(* POST /send *)

TenDigits == <<"9", "8", "7", "6", "5", "4", "3", "2", "1", "0">>
TenDigits91 == <<"9", "1", "2", "3", "4", "5", "6", "7", "8", "9">>

SendPhones == {Undefined, Str(<<>>), NonZeroNumber, Str(TenDigits), Str(TenDigits91)}
Messages == {Undefined, Str(<<"h", "i">>)}

\* a /send without the connection check
SendGateOpen == FALSE

\* if (!isReady) return res.status(400)
SendGate == ~isReady

\* the handler up to await client.sendMessage(chatId, message), or its early return
SendRequest(phone, message) ==
    /\ MayStart
    /\ sendReq.pc = "idle"
    /\ IF SendGate
       THEN /\ last' = [op |-> "POST /send", status |-> 400, cmds |-> 0]
            /\ UNCHANGED sendReq
       ELSE IF ~Truthy(phone) \/ ~Truthy(message)
       THEN /\ last' = [op |-> "POST /send", status |-> 400, cmds |-> 0]
            /\ UNCHANGED sendReq
       ELSE IF ~IsString(phone)
       THEN \* phone.replace is not a function: caught, 500
            /\ last' = [op |-> "POST /send", status |-> 500, cmds |-> 0]
            /\ UNCHANGED sendReq
       ELSE /\ sendReq' = [pc |-> "awaitSend", phone |-> phone,
                           chatId |-> ChatId(NormalizeSend(phone.s)), cmds |-> 1]
            /\ last' = [op |-> "POST /send", status |-> 0, cmds |-> 1]
    /\ UNCHANGED <<isReady, qrCodeData, encoding, msg, bulkReq, logoutReq, qrWatch, norm, proc>>

\* client.sendMessage resolves: res.json({ success: true, to: chatId })
SendResolved ==
    /\ sendReq.pc = "awaitSend"
    /\ last' = [op |-> "/send:resolved", status |-> 200, to |-> sendReq.chatId,
                phone |-> sendReq.phone]
    /\ sendReq' = IdleSend
    /\ UNCHANGED <<isReady, qrCodeData, encoding, msg, bulkReq, logoutReq, qrWatch, norm, proc>>

\* client.sendMessage rejects: res.status(500)
SendRejected ==
    /\ sendReq.pc = "awaitSend"
    /\ last' = [op |-> "/send:rejected", status |-> 500]
    /\ sendReq' = IdleSend
    /\ UNCHANGED <<isReady, qrCodeData, encoding, msg, bulkReq, logoutReq, qrWatch, norm, proc>>

----------------------------------------------------------------------------
(* POST /logout *)

\* the handler up to await client.logout(): there is no connection check
LogoutRequest ==
    /\ MayStart
    /\ logoutReq.pc = "idle"
    /\ logoutReq' = [pc |-> "awaitLogout", cmds |-> 1]
    /\ last' = [op |-> "POST /logout", status |-> 0, cmds |-> 1]
    /\ UNCHANGED <<isReady, qrCodeData, encoding, msg, sendReq, bulkReq, qrWatch, norm, proc>>

\* error.message of a rejected client.logout()
LogoutErrors == {"Session closed", "Protocol error"}

\* a logout that leaves the pairing image where it is
LogoutResolvedKeepsQr ==
    /\ logoutReq.pc = "awaitLogout"
    /\ isReady' = FALSE
    /\ logoutReq' = IdleLogout
    /\ last' = [op |-> "/logout:resolved", status |-> 200, success |-> TRUE,
                cmds |-> logoutReq.cmds]
    /\ UNCHANGED <<qrCodeData, encoding, msg, sendReq, bulkReq, qrWatch, norm, proc>>

\* client.logout resolves: isReady = false; qrCodeData = ''; res.json(...)
LogoutResolved ==
    /\ logoutReq.pc = "awaitLogout"
    /\ isReady' = FALSE
    /\ qrCodeData' = <<>>
    /\ qrWatch' = WatchOff
    /\ logoutReq' = IdleLogout
    /\ last' = [op |-> "/logout:resolved", status |-> 200, success |-> TRUE,
                cmds |-> logoutReq.cmds]
    /\ UNCHANGED <<encoding, msg, sendReq, bulkReq, norm, proc>>

\* a handler that clears the connection state whether or not logout succeeded
LogoutRejectedClears(err) ==
    /\ logoutReq.pc = "awaitLogout"
    /\ isReady' = FALSE
    /\ qrCodeData' = <<>>
    /\ qrWatch' = WatchOff
    /\ logoutReq' = IdleLogout
    /\ last' = [op |-> "/logout:rejected", status |-> 500, error |-> err,
                cmds |-> logoutReq.cmds]
    /\ UNCHANGED <<encoding, msg, sendReq, bulkReq, norm, proc>>

\* client.logout rejects: res.status(500).json({ error: error.message })
LogoutRejected(err) ==
    /\ logoutReq.pc = "awaitLogout"
    /\ logoutReq' = IdleLogout
    /\ last' = [op |-> "/logout:rejected", status |-> 500, error |-> err,
                cmds |-> logoutReq.cmds]
    /\ UNCHANGED <<isReady, qrCodeData, encoding, msg, sendReq, bulkReq, qrWatch, norm, proc>>

----------------------------------------------------------------------------
(* POST /send-bulk *)

\* setTimeout(resolve, 2000)
BulkDelayMs == 2000

Arr(r) == [t |-> "array", s |-> r]
IsArray(v) == v.t = "array"

RecipientValues == {Str(TenDigits), NonZeroNumber}
RecipientLists == UNION {[1 .. n -> RecipientValues] : n \in 0 .. MaxRecipients}
BulkRecipients == {Undefined, NotAnArray} \cup {Arr(r) : r \in RecipientLists}

\* results.push({ phone, success: ... })
Push(b, ok) == Append(b.results, [phone |-> b.recipients[b.idx], success |-> ok])

\* results.filter(r => r.success).length and its complement
CountSuccess(results, ok) == Cardinality({k \in 1 .. Len(results) : results[k].success = ok})

\* a loop that gives up at the first failure
RECURSIVE RunLoopBreak(_)
RunLoopBreak(b) ==
    IF b.idx > Len(b.recipients) \/ (\E k \in 1 .. Len(b.results) : ~b.results[k].success)
    THEN [b EXCEPT !.pc = "respond"]
    ELSE IF ~IsString(b.recipients[b.idx])
    THEN RunLoopBreak([b EXCEPT !.results = Push(b, FALSE), !.idx = @ + 1])
    ELSE [b EXCEPT !.pc = "awaitSend",
                   !.chatId = ChatId(NormalizeBulk(b.recipients[b.idx].s)),
                   !.cmds = @ + 1, !.gap = b.pause, !.pause = 0]

\* a loop that passes over a recipient it cannot normalize without a result
RECURSIVE RunLoopSkip(_)
RunLoopSkip(b) ==
    IF b.idx > Len(b.recipients)
    THEN [b EXCEPT !.pc = "respond"]
    ELSE IF ~IsString(b.recipients[b.idx])
    THEN RunLoopSkip([b EXCEPT !.idx = @ + 1])
    ELSE [b EXCEPT !.pc = "awaitSend",
                   !.chatId = ChatId(NormalizeBulk(b.recipients[b.idx].s)),
                   !.cmds = @ + 1, !.gap = b.pause, !.pause = 0]

\* for (const phone of recipients) from recipient b.idx on, as far as it runs
\* without awaiting: a recipient that is no string throws in phone.replace and
\* is caught at once; a string recipient is normalized and sent, and the loop
\* awaits client.sendMessage; past the last recipient the loop is over
RECURSIVE RunLoop(_)
RunLoop(b) ==
    IF b.idx > Len(b.recipients)
    THEN [b EXCEPT !.pc = "respond"]
    ELSE IF ~IsString(b.recipients[b.idx])
    THEN RunLoop([b EXCEPT !.results = Push(b, FALSE), !.idx = @ + 1])
    ELSE [b EXCEPT !.pc = "awaitSend",
                   !.chatId = ChatId(NormalizeBulk(b.recipients[b.idx].s)),
                   !.cmds = @ + 1, !.gap = b.pause, !.pause = 0]

\* res.json({ success: true, results, sent, failed })
BulkResponse(b) ==
    [op |-> "/send-bulk:response", status |-> 200, recipients |-> b.recipients,
     message |-> b.message, results |-> b.results, sent |-> CountSuccess(b.results, TRUE),
     failed |-> CountSuccess(b.results, FALSE), cmds |-> b.cmds]

\* the loop went on: either the response is written or a send is awaited
BulkContinue(b, op) ==
    IF b.pc = "respond"
    THEN /\ bulkReq' = IdleBulk
         /\ last' = BulkResponse(b)
    ELSE /\ bulkReq' = b
         /\ last' = [op |-> op, status |-> 0, cmds |-> b.cmds]

\* the handler up to its first await, or its early return
BulkRequest(recipients, message) ==
    /\ MayStart
    /\ bulkReq.pc = "idle"
    /\ IF ~isReady
       THEN /\ last' = [op |-> "POST /send-bulk", status |-> 400, cmds |-> 0]
            /\ UNCHANGED bulkReq
       ELSE IF ~Truthy(recipients) \/ ~IsArray(recipients) \/ ~Truthy(message)
       THEN /\ last' = [op |-> "POST /send-bulk", status |-> 400, cmds |-> 0]
            /\ UNCHANGED bulkReq
       ELSE BulkContinue(RunLoop([IdleBulk EXCEPT !.recipients = recipients.s,
                                                    !.message = message, !.idx = 1]),
                         "POST /send-bulk")
    /\ UNCHANGED <<isReady, qrCodeData, encoding, msg, sendReq, logoutReq, qrWatch, norm, proc>>

\* client.sendMessage resolves: push success, then await the 2000 ms timer
BulkSendResolved ==
    /\ bulkReq.pc = "awaitSend"
    /\ bulkReq' = [bulkReq EXCEPT !.pc = "delay", !.results = Push(bulkReq, TRUE)]
    /\ last' = [op |-> "/send-bulk:sent", status |-> 0, cmds |-> bulkReq.cmds]
    /\ UNCHANGED <<isReady, qrCodeData, encoding, msg, sendReq, logoutReq, qrWatch, norm, proc>>

\* the timer fires: the loop goes on with the next recipient
BulkDelayElapsed ==
    /\ bulkReq.pc = "delay"
    /\ BulkContinue(RunLoop([bulkReq EXCEPT !.idx = @ + 1, !.pause = @ + BulkDelayMs]),
                    "/send-bulk:timer")
    /\ UNCHANGED <<isReady, qrCodeData, encoding, msg, sendReq, logoutReq, qrWatch, norm, proc>>

\* client.sendMessage rejects: catch pushes the failure and the loop goes on
BulkSendRejected ==
    /\ bulkReq.pc = "awaitSend"
    /\ BulkContinue(RunLoop([bulkReq EXCEPT !.results = Push(bulkReq, FALSE),
                                           !.idx = @ + 1]),
                    "/send-bulk:failed")
    /\ UNCHANGED <<isReady, qrCodeData, encoding, msg, sendReq, logoutReq, qrWatch, norm, proc>>

----------------------------------------------------------------------------
(* The server: session events, inbound messages and requests interleave *)

Next ==
    \/ \E qr \in QrCodes : QrEvent(qr)
    \/ \E qr \in QrCodes : QrEncoded(qr)
    \/ \E qr \in QrCodes : QrEncodeFailed(qr)
    \/ OnReady
    \/ OnAuthenticated
    \/ OnAuthFailure
    \/ OnDisconnected
    \/ \E from \in Senders : MessageEvent(from)
    \/ \E m \in BagToSet(msg) : FetchResolved(m)
    \/ \E m \in BagToSet(msg) : FetchRejected(m)
    \/ \E m \in BagToSet(msg) : JsonRejected(m)
    \/ \E m \in BagToSet(msg), result \in RelayResults : JsonResolved(m, result)
    \/ \E m \in BagToSet(msg) : ReplyResolved(m)
    \/ \E m \in BagToSet(msg) : ReplyRejected(m)
    \/ Health
    \/ Status
    \/ Qr
    \/ Connect
    \/ \E infoOk \in BOOLEAN : Info(infoOk)
    \/ \E phone \in SendPhones, message \in Messages : SendRequest(phone, message)
    \/ SendResolved
    \/ SendRejected
    \/ \E recipients \in BulkRecipients, message \in Messages :
          BulkRequest(recipients, message)
    \/ BulkSendResolved
    \/ BulkDelayElapsed
    \/ BulkSendRejected
    \/ LogoutRequest
    \/ LogoutResolved
    \/ \E err \in LogoutErrors : LogoutRejected(err)

Spec == Init /\ [][Next]_vars

\* The server where every send command of a bulk loop completes in the end,
\* resolved or rejected, and every 2000 ms timer fires
LiveSpec ==
    /\ Spec
    /\ WF_vars(BulkSendResolved \/ BulkSendRejected \/ BulkDelayElapsed)

----------------------------------------------------------------------------
(* Shutdown: process.on('SIGINT') and process.on('SIGTERM'), two handlers
   with the same body. client is assigned when the server starts listening,
   so if (client) holds whenever a signal arrives. *)

Signals == {"SIGINT", "SIGTERM"}

\* What the runtime does with the rejected promise of an async signal handler
\* that nothing catches: "throw" ends the process with exit code 1 (the
\* default from Node 15 on), "warn" prints a warning and goes on (the default
\* before, and --unhandled-rejections=warn). The source does not fix the
\* runtime.
RejectionPolicies == {"throw", "warn"}

ShutdownInit ==
    /\ isReady = FALSE
    /\ qrCodeData = <<>>
    /\ encoding = {}
    /\ msg = EmptyBag
    /\ sendReq = IdleSend
    /\ bulkReq = IdleBulk
    /\ logoutReq = IdleLogout
    /\ last = Step("init")
    /\ qrWatch = WatchStart
    /\ norm = NormIdle
    /\ \E policy \in RejectionPolicies : proc = [Running EXCEPT !.policy = policy]

\* the signal handler up to await client.destroy()
Signal(sig) ==
    /\ proc.exitCode = NotExited
    /\ proc.destroys < MaxSignals
    /\ proc' = [proc EXCEPT !.pending = @ + 1, !.destroys = @ + 1]
    /\ last' = Step(sig)
    /\ UNCHANGED <<isReady, qrCodeData, encoding, msg, Requests, qrWatch, norm>>

\* client.destroy() resolves: process.exit(0)
DestroyResolved ==
    /\ proc.exitCode = NotExited
    /\ proc.pending > 0
    /\ proc' = [proc EXCEPT !.pending = @ - 1, !.completed = @ + 1, !.exitCode = 0]
    /\ last' = Step("destroy:resolved")
    /\ UNCHANGED <<isReady, qrCodeData, encoding, msg, Requests, qrWatch, norm>>

\* client.destroy() rejects: the await throws, there is no try/catch, the
\* handler ends without reaching process.exit(0)
DestroyRejected ==
    /\ proc.exitCode = NotExited
    /\ proc.pending > 0
    /\ proc' = [proc EXCEPT !.pending = @ - 1, !.completed = @ + 1,
                            !.exitCode = IF proc.policy = "throw" THEN 1 ELSE NotExited]
    /\ last' = Step("destroy:rejected")
    /\ UNCHANGED <<isReady, qrCodeData, encoding, msg, Requests, qrWatch, norm>>

\* the server as long as the process has not exited, and its shutdown
ShutdownNext ==
    \/ proc.exitCode = NotExited /\ Next
    \/ \E sig \in Signals : Signal(sig)
    \/ DestroyResolved
    \/ DestroyRejected

ShutdownSpec == ShutdownInit /\ [][ShutdownNext]_vars

----------------------------------------------------------------------------
(* The phone normalization on its own, over a wide set of phone strings *)

Chunks == {<<"+", "9", "1", "-">>, <<"9", "8", "7", "6", "5">>, <<"-">>,
           <<"4", "3", "2", "1", "0">>, <<"9", "1">>, <<"4", "3", "2">>,
           <<" ">>, <<"0">>}

RECURSIVE Flatten(_)
Flatten(cs) == IF cs = <<>> THEN <<>> ELSE Head(cs) \o Flatten(Tail(cs))

NormInputs == {Flatten(cs) : cs \in UNION {[1 .. n -> Chunks] : n \in 0 .. MaxChunks}}

NormInit ==
    /\ isReady = FALSE
    /\ qrCodeData = <<>>
    /\ encoding = {}
    /\ msg = EmptyBag
    /\ sendReq = IdleSend
    /\ bulkReq = IdleBulk
    /\ logoutReq = IdleLogout
    /\ last = Step("init")
    /\ qrWatch = WatchStart
    /\ proc = Running
    /\ \E p \in NormInputs : norm = [NormIdle EXCEPT !.phone = p]

\* the chat id /send computes for the phone string
NormApplySend ==
    /\ ~norm.sendDone
    /\ norm' = [norm EXCEPT !.send = ChatId(NormalizeSend(norm.phone)), !.sendDone = TRUE]
    /\ UNCHANGED <<isReady, qrCodeData, encoding, msg, Requests, last, qrWatch, proc>>

\* the chat id /send-bulk computes for the same phone string
NormApplyBulk ==
    /\ ~norm.bulkDone
    /\ norm' = [norm EXCEPT !.bulk = ChatId(NormalizeBulk(norm.phone)), !.bulkDone = TRUE]
    /\ UNCHANGED <<isReady, qrCodeData, encoding, msg, Requests, last, qrWatch, proc>>

NormNext == NormApplySend \/ NormApplyBulk

NormSpec == NormInit /\ [][NormNext]_vars

----------------------------------------------------------------------------
(* Names of the handler steps, as recorded in last.op *)

EventOps == {"qr", "qrEncoded", "qrEncodeFailed", "ready", "authenticated",
             "auth_failure", "disconnected"}

MessageOps == {"message", "message:done"}

RouteOps == {"GET /health", "GET /status", "GET /qr", "GET /connect", "GET /info",
             "POST /send", "/send:resolved", "/send:rejected",
             "POST /send-bulk", "/send-bulk:sent", "/send-bulk:timer",
             "/send-bulk:failed", "/send-bulk:response",
             "POST /logout", "/logout:resolved", "/logout:rejected"}

ConnectionState == <<isReady, qrCodeData>>

----------------------------------------------------------------------------
(* C1: a POST /send handled while ready=false responds with HTTP 400 and
   issues no send command to the Session Client, whatever the body and the
   rest of the connection state. *)
C1_SendNotReadyRejected ==
    (last.op = "POST /send" /\ ~isReady)
        => (last.status = 400 /\ last.cmds = 0 /\ sendReq.pc = "idle")

C1_Witness ==
    last.op = "POST /send" /\ ~isReady /\ qrCodeData # <<>> /\ last.status = 400

(* C2: whenever ready=false, GET /info and POST /logout both respond with
   HTTP 400, and POST /logout then issues no logout command. *)
C2_InfoLogoutNotReady ==
    /\ (last.op = "GET /info" /\ ~isReady) => last.status = 400
    /\ (last.op = "POST /logout" /\ ~isReady)
           => (last.status = 400 /\ last.cmds = 0 /\ logoutReq.pc = "idle")

(* C3: a POST /send-bulk that passes validation with N recipients answers
   with exactly N results in the order of the recipients, sent + failed = N,
   and every recipient that can be sent to got its send command whatever
   happened to the recipients before it. *)
C3_BulkResults ==
    last.op = "/send-bulk:response" =>
        /\ last.status = 200
        /\ Len(last.results) = Len(last.recipients)
        /\ \A k \in 1 .. Len(last.recipients) :
               last.results[k].phone = last.recipients[k]
        /\ last.sent + last.failed = Len(last.recipients)
        /\ last.cmds = Cardinality({k \in 1 .. Len(last.recipients) :
                                        IsString(last.recipients[k])})

C3_Witness ==
    /\ last.op = "/send-bulk:response"
    /\ Len(last.recipients) >= 2
    /\ ~last.results[1].success
    /\ last.results[2].success
    /\ last.cmds = 2

(* C4: within one POST /send-bulk call, every send command after the first
   is preceded by the fixed 2-second pause since the previous send command,
   whether that previous send succeeded or failed. *)
C4_PauseBetweenSends ==
    (bulkReq.pc = "awaitSend" /\ bulkReq.cmds >= 2) => bulkReq.gap = BulkDelayMs

(* C5, as stated: no step of an HTTP route handler changes ready or
   pairingImage. *)
C5_RoutesNeverMutate ==
    [][last'.op \in RouteOps => UNCHANGED ConnectionState]_vars

(* C5, amended: the only step of an HTTP route handler that changes ready or
   pairingImage is the completion of a successful POST /logout, which sets
   ready=false and empties pairingImage; every other route handler step
   leaves both as they were. *)
C5_OnlyLogoutMutates ==
    [][/\ last'.op \in (RouteOps \ {"/logout:resolved"}) => UNCHANGED ConnectionState
       /\ last'.op = "/logout:resolved" => (~isReady' /\ qrCodeData' = <<>>)]_vars

C5_Witness ==
    last.op = "/logout:resolved" /\ ~isReady /\ qrCodeData = <<>> /\ encoding # {}

(* C6: handling a ready event leaves ready=true and pairingImage empty;
   handling a disconnected event leaves ready=false and pairingImage empty. *)
C6_ReadyDisconnectedClear ==
    /\ last.op = "ready" => (isReady /\ qrCodeData = <<>>)
    /\ last.op = "disconnected" => (~isReady /\ qrCodeData = <<>>)

C6_Witness ==
    last.op = "ready" /\ isReady /\ qrCodeData = <<>> /\ encoding # {}

(* C7: an inbound message whose relay call fails (network error or timeout,
   a response body that is not JSON, or a failing reply send) never lets an
   exception escape the message handler, gets no reply when the relay POST or
   its JSON parsing failed, has its relay POST issued at most once, and
   no step of the message handler changes ready or pairingImage. *)
RelayFailures == {"networkError", "badJson", "replyFailed"}

C7_RelayFailureSwallowed ==
    /\ [](/\ (last.op = "message:done" /\ last.relay \in RelayFailures) =>
                 /\ ~last.threw
                 /\ last.posts <= 1
                 /\ last.relay \in {"networkError", "badJson"} => last.replies = <<>>
          /\ \A m \in BagToSet(msg) : m.posts <= 1)
    /\ [][last'.op \in MessageOps => UNCHANGED ConnectionState]_vars

C7_Witness ==
    /\ last.op = "message:done"
    /\ last.relay = "badJson"
    /\ last.replies = <<>>
    /\ isReady
    /\ BagCardinality(msg) > 0

(* C8: every inbound message gets exactly one relay POST; well-formed JSON
   with a non-empty reply gives exactly one reply, addressed to the sender of
   that message; a missing or empty reply gives none; with several messages
   in flight each reply still goes to the sender of its own message. *)
C8_OneReplyToSender ==
    /\ \A m \in BagToSet(msg) :
           /\ m.posts = 1
           /\ m.pc = "reply" => m.replies = <<m.from>>
           /\ m.pc # "reply" => m.replies = <<>>
    /\ last.op = "message:done" =>
           /\ last.posts = 1
           /\ last.relay \in {"replied", "replyFailed"} => last.replies = <<last.from>>
           /\ last.relay \in {"null", "noReply", "emptyReply"} => last.replies = <<>>

C8_Witness ==
    \E m1, m2 \in BagToSet(msg) :
        /\ m1.from # m2.from
        /\ m1.pc = "reply"
        /\ m2.pc = "reply"
        /\ last.op = "message"

----------------------------------------------------------------------------
(* The canonical number the specification describes, for the claims *)

RECURSIVE DigitsOnly(_)
DigitsOnly(p) ==
    IF p = <<>> THEN <<>>
    ELSE IF Head(p) \in Digits THEN <<Head(p)>> \o DigitsOnly(Tail(p))
    ELSE DigitsOnly(Tail(p))

CanonicalOf(p) ==
    LET d == DigitsOnly(p)
    IN  IF Len(d) = 10 /\ SubSeq(d, 1, 2) # <<"9", "1">> THEN <<"9", "1">> \o d ELSE d

Plain10 == <<"9", "8", "7", "6", "5", "4", "3", "2", "1", "0">>
Prefixed12 == <<"9", "1", "9", "8", "7", "6", "5", "4", "3", "2", "1", "0">>
WithSymbols == <<"+", "9", "1", "-", "9", "8", "7", "6", "5", "-", "4", "3", "2", "1", "0">>

(* C9: /send and /send-bulk normalize a phone string alike: the non-digits
   are removed, and '91' is prepended exactly when the digit string has 10
   digits and does not start with '91'; "9876543210" gives "919876543210",
   "919876543210" stays, "+91-98765-43210" gives "919876543210". *)
C9_Normalization ==
    /\ norm.sendDone => norm.send = Append(CanonicalOf(norm.phone), "@c.us")
    /\ norm.bulkDone => norm.bulk = Append(CanonicalOf(norm.phone), "@c.us")
    /\ (norm.sendDone /\ norm.bulkDone) => norm.send = norm.bulk
    /\ (norm.sendDone /\ norm.phone \in {Plain10, Prefixed12, WithSymbols})
           => norm.send = Append(Prefixed12, "@c.us")

C9_Witness ==
    norm.sendDone /\ norm.bulkDone /\ norm.phone = WithSymbols /\ Len(norm.send) = 13

(* C10: every destination whose digits-only form has exactly 10 digits is
   passed to the Session Client with '91' prepended, a 12-digit identifier. *)
C10_TenDigitsPrefixed ==
    (norm.sendDone /\ Len(DigitsOnly(norm.phone)) = 10)
        => norm.send = Append(<<"9", "1">> \o DigitsOnly(norm.phone), "@c.us")

(* C11: GET /qr answers connected:true with qrCode:null whenever ready=true,
   whatever image is stored; connected:false with the stored image when
   ready=false and an image is stored; connected:false with qrCode:null
   otherwise; and its step leaves the connection state as it was. *)
C11_QrDecisionTable ==
    /\ [](last.op = "GET /qr" =>
            /\ last.status = 200
            /\ isReady => (last.connected = TRUE /\ last.qrCode = Null)
            /\ (~isReady /\ qrCodeData # <<>>)
                   => (last.connected = FALSE /\ last.qrCode = qrCodeData)
            /\ (~isReady /\ qrCodeData = <<>>)
                   => (last.connected = FALSE /\ last.qrCode = Null))
    /\ [][last'.op = "GET /qr" => UNCHANGED ConnectionState]_vars

C11_Witness ==
    last.op = "GET /qr" /\ isReady /\ qrCodeData # <<>> /\ last.qrCode = Null

(* C12: a POST /send-bulk whose body lacks a message, or whose recipients is
   missing, not a list or an empty list, is answered with HTTP 400 and issues
   no send command: only a body with a message and a non-empty list of
   recipients gets into the send loop or to its 200 response. *)
C12_MalformedBulkRejected ==
    /\ (last.op = "POST /send-bulk" /\ last.status = 400)
           => (last.cmds = 0 /\ bulkReq.pc = "idle")
    /\ bulkReq.pc # "idle"
           => (Truthy(bulkReq.message) /\ Len(bulkReq.recipients) >= 1)
    /\ last.op = "/send-bulk:response"
           => (Truthy(last.message) /\ Len(last.recipients) >= 1)

(* C13: POST /logout issues the logout command to the Session Client exactly
   once; when the command succeeds the connection state is ready=false with
   no pairing image and the answer is success:true; when it fails the answer
   is HTTP 500 with the error text, and ready and the pairing image are as
   they were before the failure. *)
C13_LogoutOutcome ==
    /\ [](/\ last.op = "POST /logout" => (last.cmds = 1 /\ logoutReq.cmds = 1)
          /\ last.op = "/logout:resolved"
                 => /\ last.status = 200 /\ last.success = TRUE /\ last.cmds = 1
                    /\ ~isReady /\ qrCodeData = <<>>
          /\ last.op = "/logout:rejected"
                 => /\ last.status = 500 /\ last.error \in LogoutErrors
                    /\ last.cmds = 1)
    /\ [][last'.op = "/logout:rejected" => UNCHANGED ConnectionState]_vars

C13_Witness ==
    /\ last.op = "/logout:resolved" /\ last.status = 200 /\ last.cmds = 1
    /\ ~isReady /\ qrCodeData = <<>>

(* C14: in every reachable state, also while other requests are suspended at
   an await, GET /health and GET /status can be handled and answer HTTP 200:
   /health reports whatsapp equal to ready, /status reports connected equal
   to ready and qrAvailable true exactly when a pairing image is stored; and
   neither step changes anything but the response. *)
C14_HealthStatus ==
    /\ [](/\ ENABLED Health
          /\ ENABLED Status
          /\ last.op = "GET /health"
                 => (last.status = 200 /\ last.whatsapp = isReady)
          /\ last.op = "GET /status"
                 => /\ last.status = 200
                    /\ last.connected = isReady
                    /\ last.qrAvailable = (qrCodeData # <<>>))
    /\ [][last'.op \in {"GET /health", "GET /status"} => UNCHANGED Frame]_vars

C14_Witness ==
    /\ last.op = "GET /status" /\ last.status = 200
    /\ last.connected /\ last.qrAvailable
    /\ bulkReq.pc = "awaitSend"

(* C15: the auth-failure handler sets ready=false and leaves the pairing
   image as it was; the authenticated handler changes neither; the steps of
   the pairing-code handler change nothing of the connection state but the
   pairing image, so a ready=false stays false across them. *)
C15_EventFrames ==
    /\ [](last.op = "auth_failure" => ~isReady)
    /\ [][/\ last'.op = "auth_failure" => qrCodeData' = qrCodeData
          /\ last'.op = "authenticated" => UNCHANGED ConnectionState
          /\ last'.op \in {"qr", "qrEncoded", "qrEncodeFailed"}
                 => /\ isReady' = isReady
                    /\ UNCHANGED <<msg, Requests, norm>>
          /\ last'.op \in {"qr", "qrEncodeFailed"} => qrCodeData' = qrCodeData]_vars

C15_Witness ==
    last.op = "auth_failure" /\ ~isReady /\ qrCodeData # <<>>

(* C17: in every reachable state, however the session events interleave with
   the asynchronous encoding of a pairing code, ready=true implies that no
   pairing image is stored, and GET /status never answers connected:true
   together with qrAvailable:true. *)
C17_ReadyImpliesNoImage ==
    /\ isReady => qrCodeData = <<>>
    /\ last.op = "GET /status" => ~(last.connected /\ last.qrAvailable)

(* C18: no step of /send or /send-bulk issues a send command while
   ready=false: a step of either handler that has just put a send command in
   flight was taken with ready=true, also when a disconnected or auth-failure
   event or a successful logout came in the middle of a bulk loop. *)
C18_NoSendWhenNotReady ==
    /\ (last.op = "POST /send" /\ sendReq.pc = "awaitSend") => isReady
    /\ (last.op \in {"POST /send-bulk", "/send-bulk:timer", "/send-bulk:failed"}
           /\ bulkReq.pc = "awaitSend") => isReady

(* C19: when the first two pairing codes of a run, q1 and then q2, have both
   been encoded successfully, in whichever order the two encodings complete,
   and no ready, disconnected or logout has come in between, the stored
   pairing image is the encoding of q2, the code issued last; and an encoding
   that fails leaves the stored pairing image as it was. *)
C19_LatestCodeStored ==
    /\ []((qrWatch.on /\ qrWatch.issued = 2 /\ encoding = {})
              => qrCodeData = ToDataURL(qrWatch.latest))
    /\ [][last'.op = "qrEncodeFailed" => qrCodeData' = qrCodeData]_vars

(* C16: the process exits only after a destroy command has been issued to the
   Session Client and has completed; and once a termination signal has come
   and every destroy command issued has completed, resolved or rejected, the
   process has exited. *)
C16_ExitAfterDestroy ==
    /\ proc.exitCode # NotExited => (proc.destroys >= 1 /\ proc.completed >= 1)
    /\ (proc.destroys >= 1 /\ proc.pending = 0) => proc.exitCode # NotExited

\* send commands of the bulk request b that have completed: one per result
\* of a recipient that is a string
SendsCompleted(recipients, results) ==
    Cardinality({k \in 1 .. Len(results) : IsString(recipients[k])})

\* the results of the bulk request after a step: in the response, if the step
\* wrote it, in the suspended handler otherwise
ResultsAfter == IF bulkReq'.pc = "idle" THEN last'.results ELSE bulkReq'.results

(* C20: a POST /send-bulk that passes validation has at most one send command
   in flight, and has one exactly while it awaits it; when it responds every
   recipient has exactly one result, in order, and every send command issued
   has completed, one per recipient that can be sent to; while a send command
   is in flight the request moves on only by the completion of that command,
   so it never responds if the command never completes; a request in flight
   ends only by its response; and if every send command completes and every
   timer fires, the request does end: again and again no bulk request is in
   flight. *)
C20_BulkSequentialAndResponds ==
    /\ [](/\ bulkReq.pc # "idle"
                 => /\ bulkReq.cmds - SendsCompleted(bulkReq.recipients, bulkReq.results)
                           = (IF bulkReq.pc = "awaitSend" THEN 1 ELSE 0)
                    /\ bulkReq.pc = "awaitSend" => bulkReq.idx = Len(bulkReq.results) + 1
          /\ last.op = "/send-bulk:response"
                 => /\ Len(last.results) = Len(last.recipients)
                    /\ \A k \in 1 .. Len(last.recipients) :
                           last.results[k].phone = last.recipients[k]
                    /\ last.cmds = SendsCompleted(last.recipients, last.results)
                    /\ \A k \in 1 .. Len(last.recipients) :
                           last.results[k].success => IsString(last.recipients[k]))
    /\ [][(bulkReq.pc = "awaitSend" /\ bulkReq' # bulkReq)
             => /\ last'.op \in {"/send-bulk:sent", "/send-bulk:failed",
                                  "/send-bulk:response"}
                /\ Len(ResultsAfter) >= bulkReq.idx
                /\ ResultsAfter[bulkReq.idx].phone = bulkReq.recipients[bulkReq.idx]]_vars
    /\ [][(bulkReq.pc # "idle" /\ bulkReq'.pc = "idle")
             => last'.op = "/send-bulk:response"]_vars
    /\ []<>(bulkReq.pc = "idle")

C20_Witness ==
    /\ last.op = "/send-bulk:response"
    /\ Len(last.recipients) = MaxRecipients
    /\ last.cmds = MaxRecipients
    /\ last.sent = 1
    /\ last.failed = MaxRecipients - 1

====
